---- MODULE Spec2Model ----
(***************************************************************************)
(* AuthManager of ComfyUI-Auth-Manager (src/nodes.py).                     *)
(*                                                                         *)
(* The manager keeps no authentication state in memory: the state is the   *)
(* JSON document in the file auth_status, written by _save_auth_status     *)
(* (open(..., 'w') then json.dump) and read back by _load_auth_status.     *)
(* The file is modelled by its bytes, one string per character, so that a  *)
(* truncated or overwritten file is a value json.load can fail on.         *)
(*                                                                         *)
(* authenticate() is called by the route POST /auth/authenticate of        *)
(* src/api.py, which validates the request, calls the manager and turns    *)
(* its result into the HTTP response.                                      *)
(*                                                                         *)
(* The specifications share the actions:                                   *)
(*   Spec         callers scheduled as on the aiohttp event loop of        *)
(*                src/api.py: authenticate() holds no await, so a call     *)
(*                runs to its return before another caller's call starts;  *)
(*                the status store accepts writes.                         *)
(*   FaultSpec    Spec with a status store whose open, write or unlink     *)
(*                can fail.                                                *)
(*   ThreadSpec   callers are threads (or processes sharing the file):     *)
(*                their steps interleave freely.  The code takes no lock.  *)
(*   RestartSpec  the process is stopped and started again between calls.  *)
(*   LiveSpec     the calls with the progress that the timeout of          *)
(*                requests.post and the local steps give them.             *)
(***************************************************************************)
EXTENDS Naturals, Integers, Sequences, FiniteSets, TLC

VARIABLES
    environ,    \* os.environ: RUNPOD_POD_ID and WEBHOOK_SECRET_KEY
    metadata,   \* /runpod-volume/runpod.json
    pod_id,     \* self.pod_id, fixed by __init__
    auth_file,  \* the bytes of self.auth_file, or NoFile
    store,      \* "reliable", or "faulty": its opens and writes can raise
    now,        \* the clock datetime.now() reads
    sched,      \* "loop": one call at a time; "threads": calls interleave
    pc,         \* where each caller is in its call
    frame,      \* the locals of each caller's call
    wire        \* the POST each caller has in flight to the verifier

vars == <<environ, metadata, pod_id, auth_file, store, now, sched, pc, frame, wire>>

\* Largest clock value; datetime.now() is read from the clock `now`.
MaxClock == 1

Callers == {"c1", "c2"}
Usernames == {"al", "bob"}
Passwords == {"pw"}

\* Python's None, the value of an unset environment variable, an absent file.
None == "<None>"
Unset == "<unset>"
NoFile == <<"<no file>">>

\* Values RUNPOD_POD_ID and WEBHOOK_SECRET_KEY take in os.environ.
EnvPodIds == {Unset, "", "unknown", "pod-1"}
EnvSecrets == {Unset, "", "s3cret"}

\* States of /runpod-volume/runpod.json: absent, not JSON, or a JSON object
\* whose podId is missing (None), empty or a pod id.
Metadatas ==
    { [kind |-> "missing", podId |-> None], [kind |-> "corrupt", podId |-> None],
      [kind |-> "json", podId |-> None], [kind |-> "json", podId |-> ""],
      [kind |-> "json", podId |-> "pod-7"] }

\* HTTP statuses the verifier answers with.
Statuses == {200, 201, 401, 403, 500}

\* What requests.post does: a response with a status code, or an exception.
Responses ==
    [kind : {"status"}, code : Statuses]
        \cup [kind : {"Timeout", "ConnectionError", "Exception"}, code : {0}]

\* What the status store does to one _save_auth_status: "ok"; "no_dir" (open
\* for writing raises, as when auth_dir could not be created); "no_space" (open
\* truncates the file, the write at close raises).  A reliable store is "ok".
StoreOutcomes(st) == IF st = "faulty" THEN {"ok", "no_dir", "no_space"} ELSE {"ok"}

-----------------------------------------------------------------------------
\* Characters of the strings that reach the status file.

Chars(s) ==
    CASE s = "" -> <<>>
      [] s = "al" -> <<"a", "l">>
      [] s = "bob" -> <<"b", "o", "b">>
      [] s = "unknown" -> <<"u", "n", "k", "n", "o", "w", "n">>
      [] s = "pod-1" -> <<"p", "o", "d", "-", "1">>
      [] s = "pod-7" -> <<"p", "o", "d", "-", "7">>

Digits == <<"0", "1", "2", "3", "4", "5", "6", "7", "8", "9">>

\* datetime.now().isoformat(): a string of fixed width that names the instant.
isoformat(t) == <<"T", Digits[(t \div 10) + 1], Digits[(t % 10) + 1]>>

Quoted(cs) == <<"\"">> \o cs \o <<"\"">>

K_authenticated ==
    <<"{", "\"", "a", "u", "t", "h", "e", "n", "t", "i", "c", "a", "t", "e", "d", "\"", ":", " ">>
K_username ==
    <<",", " ", "\"", "u", "s", "e", "r", "n", "a", "m", "e", "\"", ":", " ">>
K_timestamp ==
    <<",", " ", "\"", "t", "i", "m", "e", "s", "t", "a", "m", "p", "\"", ":", " ">>
K_pod_id ==
    <<",", " ", "\"", "p", "o", "d", "_", "i", "d", "\"", ":", " ">>

\* json.dump(auth_data, f): the document of the four fields, in the order the
\* dict literal gives them, with json's default separators.
json_dump(auth_data) ==
    K_authenticated
        \o (IF auth_data.authenticated THEN <<"t", "r", "u", "e">>
                                       ELSE <<"f", "a", "l", "s", "e">>)
        \o K_username
        \o (IF auth_data.username = None THEN <<"n", "u", "l", "l">>
                                         ELSE Quoted(Chars(auth_data.username)))
        \o K_timestamp \o Quoted(isoformat(auth_data.timestamp))
        \o K_pod_id \o Quoted(Chars(auth_data.pod_id))
        \o <<"}">>

\* The dicts _save_auth_status can build.
AuthDatas ==
    [authenticated : BOOLEAN, username : Usernames \cup {None},
     timestamp : 0..MaxClock, pod_id : {"", "unknown", "pod-1"}]

ParseError == [error |-> "JSONDecodeError"]

\* json.load(f): the dict whose document the bytes are; any other bytes (an
\* empty file, a document followed by the tail of an older one) raise.
json_load(bytes) ==
    IF \E d \in AuthDatas : json_dump(d) = bytes
    THEN CHOOSE d \in AuthDatas : json_dump(d) = bytes
    ELSE ParseError

\* f.write at offset 0 of a file opened with 'w': the content replaces the
\* bytes it covers; bytes another writer left beyond its length stay.  A file
\* unlinked since the open stays absent (the write goes to the orphaned inode).
write_at_0(content, file) ==
    IF file = NoFile THEN NoFile
    ELSE content \o SubSeq(file, Len(content) + 1, Len(file))

-----------------------------------------------------------------------------
\* The pure parts of AuthManager.

getenv(env, name, default) == IF env[name] = Unset THEN default ELSE env[name]

\* __init__: self.pod_id = os.getenv("RUNPOD_POD_ID", "unknown").
init_pod_id(env) == getenv(env, "RUNPOD_POD_ID", "unknown")

\* auth_data with pod_id read from the environment at the time of the write.
auth_data_pod_id_from_environ(authenticated, username, t, self_pod_id) ==
    [authenticated |-> authenticated, username |-> username,
     timestamp |-> t, pod_id |-> init_pod_id(environ)]

\* The dict _save_auth_status writes.
auth_data(authenticated, username, t, self_pod_id) ==
    [authenticated |-> authenticated, username |-> username,
     timestamp |-> t, pod_id |-> self_pod_id]

NotAuthenticated == [authenticated |-> FALSE, username |-> None]

\* _load_auth_status: the dict in the file; the default when the file does not
\* exist or json.load raises.
_load_auth_status(file) ==
    IF file = NoFile THEN NotAuthenticated
    ELSE IF json_load(file) = ParseError THEN NotAuthenticated
    ELSE json_load(file)

is_authenticated(file) == _load_auth_status(file).authenticated

get_auth_status(file) == _load_auth_status(file)

\* _get_current_pod_id with the metadata file consulted before the environment.
_get_current_pod_id_file_first(env, meta, self_pod_id) ==
    LET runpod_pod_id == getenv(env, "RUNPOD_POD_ID", "")
    IN  IF meta.kind = "json" /\ meta.podId # None /\ meta.podId # ""
        THEN meta.podId
        ELSE IF runpod_pod_id # "" /\ runpod_pod_id # "unknown" THEN runpod_pod_id
        ELSE self_pod_id

\* _get_current_pod_id answering with the identity __init__ stored.
_get_current_pod_id_stored(env, meta, self_pod_id) == self_pod_id

\* _get_current_pod_id: the environment, then the metadata file, then
\* self.pod_id.  A metadata file that does not parse raises inside the try and
\* falls through to self.pod_id, like a missing file or a falsy podId.
_get_current_pod_id(env, meta, self_pod_id) ==
    LET runpod_pod_id == getenv(env, "RUNPOD_POD_ID", "")
    IN  IF runpod_pod_id # "" /\ runpod_pod_id # "unknown" THEN runpod_pod_id
        ELSE IF meta.kind = "json" /\ meta.podId # None /\ meta.podId # ""
             THEN meta.podId
        ELSE self_pod_id

\* The request body of authenticate: a dict, as its items in insertion order.
payload_of(username, password, actual_pod_id) ==
    << <<"password", password>>, <<"runPodId", actual_pod_id>>,
       <<"username", username>> >>

\* json.dumps(obj, separators=(",", ":"), ensure_ascii=False): the items in
\* the dict's own order, compact.
json_dumps_compact(items) == [items |-> items, separators |-> <<",", ":">>]

\* hmac.new(key, message, sha256).hexdigest(): a value that is equal for equal
\* key and message only.
hexdigest(key, message) == [hex |-> <<key, message>>]

\* The None that _get_hmac_signature returns.
NoSignature == [hex |-> <<>>]

\* _get_hmac_signature: None without a secret, None when encoding or hashing
\* raises (fault), the digest of the compact payload otherwise.
_get_hmac_signature(payload_data, env, fault) ==
    LET secret_key == getenv(env, "WEBHOOK_SECRET_KEY", "")
    IN  IF secret_key = "" THEN NoSignature
        ELSE IF fault THEN NoSignature
        ELSE hexdigest(secret_key, json_dumps_compact(payload_data))

\* headers_of with x-signature set whatever the signing step returned.
headers_of_unconditional(signature) ==
    ("Content-Type" :> "application/json") @@ ("x-signature" :> signature)

\* The headers of the POST: x-signature is added when the signature is truthy.
headers_of(signature) ==
    IF signature # NoSignature
    THEN ("Content-Type" :> "application/json") @@ ("x-signature" :> signature)
    ELSE ("Content-Type" :> "application/json")

\* A value authenticate hands to its caller: the tuple (success, message), a
\* tuple of two values, or an exception that leaves the call (raised).  The
\* message is its fixed text and the status code formatted into it, if any.
Returned(success, message, code) ==
    [raised |-> FALSE, success |-> success, message |-> message, code |-> code,
     values |-> 2]

Raised(exception) ==
    [raised |-> TRUE, success |-> FALSE, message |-> exception, code |-> 0,
     values |-> 0]

NoReturn ==
    [raised |-> FALSE, success |-> FALSE, message |-> "", code |-> 0, values |-> 0]

\* What a branch of authenticate does: whether it calls _save_auth_status, with
\* which arguments, and what it returns.
Branch(save, authenticated, username, ret) ==
    [save |-> save, authenticated |-> authenticated, username |-> username, ret |-> ret]

\* on_status with the 200 branch returning before it saves.
on_status_200_unsaved(status_code, username) ==
    IF status_code = 200
    THEN Branch(FALSE, TRUE, username, Returned(TRUE, "Authentication successful", 0))
    ELSE IF status_code = 401
    THEN Branch(TRUE, FALSE, None, Returned(FALSE, "Invalid username or password", 0))
    ELSE IF status_code = 403
    THEN Branch(TRUE, FALSE, None, Returned(FALSE, "Access denied for this pod", 0))
    ELSE Branch(TRUE, FALSE, None, Returned(FALSE, "Server error: ", status_code))

\* on_status without the 403 branch.
on_status_no_403(status_code, username) ==
    IF status_code = 200
    THEN Branch(TRUE, TRUE, username, Returned(TRUE, "Authentication successful", 0))
    ELSE IF status_code = 401
    THEN Branch(TRUE, FALSE, None, Returned(FALSE, "Invalid username or password", 0))
    ELSE Branch(TRUE, FALSE, None, Returned(FALSE, "Server error: ", status_code))

\* on_status with the 401 branch returning before it saves.
on_status_401_unsaved(status_code, username) ==
    IF status_code = 200
    THEN Branch(TRUE, TRUE, username, Returned(TRUE, "Authentication successful", 0))
    ELSE IF status_code = 401
    THEN Branch(FALSE, FALSE, None, Returned(FALSE, "Invalid username or password", 0))
    ELSE IF status_code = 403
    THEN Branch(TRUE, FALSE, None, Returned(FALSE, "Access denied for this pod", 0))
    ELSE Branch(TRUE, FALSE, None, Returned(FALSE, "Server error: ", status_code))

\* on_status with the 200 branch saving authenticated=True without the
\* username.
on_status_200_anonymous(status_code, username) ==
    IF status_code = 200
    THEN Branch(TRUE, TRUE, None, Returned(TRUE, "Authentication successful", 0))
    ELSE IF status_code = 401
    THEN Branch(TRUE, FALSE, None, Returned(FALSE, "Invalid username or password", 0))
    ELSE IF status_code = 403
    THEN Branch(TRUE, FALSE, None, Returned(FALSE, "Access denied for this pod", 0))
    ELSE Branch(TRUE, FALSE, None, Returned(FALSE, "Server error: ", status_code))

\* The branches on response.status_code.
on_status(status_code, username) ==
    IF status_code = 200
    THEN Branch(TRUE, TRUE, username, Returned(TRUE, "Authentication successful", 0))
    ELSE IF status_code = 401
    THEN Branch(TRUE, FALSE, None, Returned(FALSE, "Invalid username or password", 0))
    ELSE IF status_code = 403
    THEN Branch(TRUE, FALSE, None, Returned(FALSE, "Access denied for this pod", 0))
    ELSE Branch(TRUE, FALSE, None, Returned(FALSE, "Server error: ", status_code))

\* on_exception with the Timeout clause saving authenticated=False.
on_exception_timeout_saves(kind) ==
    IF kind = "Timeout"
    THEN Branch(TRUE, FALSE, None, Returned(FALSE, "Authentication request timed out", 0))
    ELSE IF kind = "ConnectionError"
    THEN Branch(FALSE, FALSE, None,
                Returned(FALSE, "Could not connect to authentication server", 0))
    ELSE Branch(FALSE, FALSE, None, Returned(FALSE, "Authentication error: ", 0))

\* on_exception without the final except Exception clause.
on_exception_no_catch_all(kind) ==
    IF kind = "Timeout"
    THEN Branch(FALSE, FALSE, None, Returned(FALSE, "Authentication request timed out", 0))
    ELSE IF kind = "ConnectionError"
    THEN Branch(FALSE, FALSE, None,
                Returned(FALSE, "Could not connect to authentication server", 0))
    ELSE Branch(FALSE, FALSE, None, Raised(kind))

\* The except clauses of authenticate.
on_exception(kind) ==
    IF kind = "Timeout"
    THEN Branch(FALSE, FALSE, None, Returned(FALSE, "Authentication request timed out", 0))
    ELSE IF kind = "ConnectionError"
    THEN Branch(FALSE, FALSE, None,
                Returned(FALSE, "Could not connect to authentication server", 0))
    ELSE Branch(FALSE, FALSE, None, Returned(FALSE, "Authentication error: ", 0))

branch_of(response, username) ==
    IF response.kind = "status" THEN on_status(response.code, username)
    ELSE on_exception(response.kind)

\* open(self.auth_file, 'w'): raises when the directory is missing, creates or
\* truncates the file otherwise.
open_w(file, outcome) ==
    IF outcome = "no_dir" THEN [ok |-> FALSE, file |-> file]
    ELSE [ok |-> TRUE, file |-> <<>>]

\* json.dump(auth_data, f) and the close of the with block: the buffered
\* document reaches the file in one write, unless the write raises.
dump_close(data, file, outcome) ==
    IF outcome = "no_space" THEN file ELSE write_at_0(json_dump(data), file)

auth_endpoint == "AUTH_ENDPOINT"

\* What the unlink of clear_auth does on each store: "ok", or "denied" (it
\* raises, as on a read-only volume).
UnlinkOutcomes(st) == IF st = "faulty" THEN {"ok", "denied"} ELSE {"ok"}

\* unlink that empties the file and leaves it in place.
unlink_truncating(file, outcome) ==
    IF file = NoFile \/ outcome = "denied" THEN file ELSE <<>>

\* clear_auth: the file is removed when it exists, unless the unlink raises;
\* the exception is swallowed.
unlink(file, outcome) ==
    IF file = NoFile \/ outcome = "denied" THEN file ELSE NoFile

\* __init__ creating auth_dir anew, without the files it held.
mkdir_emptying(file) == NoFile

\* __init__: auth_dir.mkdir(parents=True, exist_ok=True) creates the directory
\* when it is missing and leaves an existing one, and the file in it, alone.
mkdir_exist_ok(file) == file

\* requests.post without a timeout: the call waits as long as the verifier does.
post_request_untimed(payload, headers) ==
    [url |-> auth_endpoint, json |-> payload, headers |-> headers, timeout |-> <<>>]

\* The arguments of requests.post.  timeout is <<seconds>>, or <<>> for none.
post_request(payload, headers) ==
    [url |-> auth_endpoint, json |-> payload, headers |-> headers, timeout |-> <<30>>]

-----------------------------------------------------------------------------
\* The route POST /auth/authenticate of src/api.py.

\* The bodies of the requests the route receives: one that request.json()
\* cannot parse, and the JSON objects whose username and password are absent
\* (data.get gives None), empty, or a value.
Bodies ==
    {[json |-> FALSE, username |-> None, password |-> None]}
        \cup [json : {TRUE}, username : Usernames \cup {None, ""},
              password : Passwords \cup {None, ""}]

NoBody == [json |-> TRUE, username |-> None, password |-> None]

\* The route's test with only the username looked at.
credentials_missing_username_only(username, password) == username \in {None, ""}

\* not username or not password.
credentials_missing(username, password) ==
    username \in {None, ""} \/ password \in {None, ""}

\* web.json_response: the HTTP status and, of the body, success, message (with
\* the status code formatted into it) and whether user_data is in it.
HttpResponse(status, success, message, code, user_data) ==
    [status |-> status, success |-> success, message |-> message, code |-> code,
     user_data |-> user_data]

NoHttpResponse == HttpResponse(0, FALSE, "", 0, FALSE)

\* What the route answers before it calls the manager.
bad_request == HttpResponse(400, FALSE, "Username and password are required", 0, FALSE)

internal_error == HttpResponse(500, FALSE, "Authentication error: ", 0, FALSE)

\* The route from the return of auth_manager.authenticate to its response:
\* the result is unpacked into success, message, user_data, which raises
\* ValueError unless it holds three values; the except clause answers 500.
route_response(ret) ==
    IF ret.raised \/ ret.values # 3 THEN internal_error
    ELSE HttpResponse(200, ret.success, ret.message, ret.code,
                      ret.success /\ ret.values >= 3)

-----------------------------------------------------------------------------
\* The state of a call: the locals of authenticate or logout, the number of
\* requests the call has posted, and entry, the status file as the call found
\* it (a history value: the code keeps no copy).

NoResponse == [kind |-> "none", code |-> 0]

IdleFrame ==
    [op |-> "", username |-> None, actual_pod_id |-> "",
     signature |-> NoSignature, signed |-> FALSE, response |-> NoResponse,
     data |-> auth_data(FALSE, None, 0, ""), ret |-> NoReturn, posts |-> 0,
     entry |-> NoFile, body |-> NoBody, http |-> NoHttpResponse]

\* On the event loop a call runs to its return, and its result is taken,
\* before another call starts; threads run their calls side by side.
Scheduled(c) == sched = "threads" \/ \A d \in Callers \ {c} : pc[d] = "idle"

\* __init__, for every value the environment can hold at construction.
Init ==
    /\ environ \in [RUNPOD_POD_ID : {Unset, "pod-1"}, WEBHOOK_SECRET_KEY : {Unset}]
    /\ metadata = [kind |-> "missing", podId |-> None]
    /\ pod_id = init_pod_id(environ)
    /\ auth_file = NoFile
    /\ store = "reliable"
    /\ now = 0
    /\ sched = "loop"
    /\ pc = [c \in Callers |-> "idle"]
    /\ frame = [c \in Callers |-> IdleFrame]
    /\ wire = [c \in Callers |-> <<>>]

\* authenticate, from its entry to the requests.post it blocks in.
authenticate(c, username, password, fault) ==
    /\ pc[c] = "idle"
    /\ Scheduled(c)
    /\ LET actual_pod_id == _get_current_pod_id(environ, metadata, pod_id)
           payload == payload_of(username, password, actual_pod_id)
           signature == _get_hmac_signature(payload, environ, fault)
       IN  /\ frame' = [frame EXCEPT ![c] =
                  [IdleFrame EXCEPT !.op = "authenticate", !.username = username,
                                    !.actual_pod_id = actual_pod_id,
                                    !.signature = signature,
                                    !.signed = "x-signature" \in DOMAIN headers_of(signature),
                                    !.posts = 1, !.entry = auth_file,
                                    !.body = [json |-> TRUE, username |-> username,
                                              password |-> password]]]
           /\ wire' = [wire EXCEPT ![c] =
                  <<post_request(payload, headers_of(signature))>>]
    /\ pc' = [pc EXCEPT ![c] = "posted"]
    /\ UNCHANGED <<environ, metadata, pod_id, auth_file, store, now, sched>>

\* requests_post with the Timeout clause posting the request once more.
requests_post_retrying(c, response) ==
    /\ pc[c] = "posted"
    /\ Scheduled(c)
    /\ response.kind = "Timeout" => wire[c][1].timeout # <<>>
    /\ IF response.kind = "Timeout" /\ frame[c].posts < 2
       THEN /\ frame' = [frame EXCEPT ![c].posts = @ + 1]
            /\ UNCHANGED <<pc, wire>>
       ELSE LET b == branch_of(response, frame[c].username)
            IN  /\ frame' = [frame EXCEPT ![c] =
                       [IdleFrame EXCEPT
                           !.op = "authenticate", !.username = frame[c].username,
                           !.actual_pod_id = IF b.save THEN frame[c].actual_pod_id ELSE @,
                           !.posts = frame[c].posts, !.entry = frame[c].entry,
                           !.signed = frame[c].signed, !.response = response,
                           !.ret = b.ret,
                           !.data = IF b.save
                                    THEN auth_data(b.authenticated, b.username, now, pod_id)
                                    ELSE @]]
                /\ pc' = [pc EXCEPT ![c] = IF b.save THEN "open" ELSE "returned"]
                /\ wire' = [wire EXCEPT ![c] = <<>>]
    /\ UNCHANGED <<environ, metadata, pod_id, auth_file, store, now, sched>>

\* requests.post returns or raises; authenticate takes the branch of the
\* status code or the except clause, and enters _save_auth_status when the
\* branch calls it (the dict is built before the file is opened).  Timeout is
\* raised only for a request that was given a timeout.  The signature is
\* dead from here, and signed keeps whether headers holds x-signature;
\* actual_pod_id is kept beside the dict that is saved until the file is
\* opened, and in no branch that saves nothing.
requests_post(c, response) ==
    /\ pc[c] = "posted"
    /\ Scheduled(c)
    /\ response.kind = "Timeout" => wire[c][1].timeout # <<>>
    /\ LET b == branch_of(response, frame[c].username)
       IN  /\ frame' = [frame EXCEPT ![c] =
                  [IdleFrame EXCEPT
                      !.op = "authenticate", !.username = frame[c].username,
                      !.actual_pod_id = IF b.save THEN frame[c].actual_pod_id ELSE @,
                      !.posts = frame[c].posts, !.entry = frame[c].entry,
                      !.signed = frame[c].signed, !.response = response,
                      !.ret = b.ret,
                      !.data = IF b.save
                               THEN auth_data(b.authenticated, b.username, now, pod_id)
                               ELSE @]]
           /\ pc' = [pc EXCEPT ![c] = IF b.save THEN "open" ELSE "returned"]
    /\ wire' = [wire EXCEPT ![c] = <<>>]
    /\ UNCHANGED <<environ, metadata, pod_id, auth_file, store, now, sched>>

\* _save_auth_status: open(self.auth_file, 'w').  An exception is swallowed
\* and the caller goes on to its return.
open_auth_file(c, outcome) ==
    /\ pc[c] = "open"
    /\ Scheduled(c)
    /\ outcome \in StoreOutcomes(store)
    /\ auth_file' = open_w(auth_file, outcome).file
    /\ pc' = [pc EXCEPT ![c] = IF open_w(auth_file, outcome).ok THEN "dump" ELSE "returned"]
    /\ frame' = [frame EXCEPT ![c].actual_pod_id = ""]
    /\ UNCHANGED <<environ, metadata, pod_id, store, now, sched, wire>>

\* _save_auth_status: json.dump and the close of the file.
dump_auth_file(c, outcome) ==
    /\ pc[c] = "dump"
    /\ Scheduled(c)
    /\ outcome \in StoreOutcomes(store)
    /\ auth_file' = dump_close(frame[c].data, auth_file, outcome)
    /\ pc' = [pc EXCEPT ![c] = "returned"]
    /\ UNCHANGED <<environ, metadata, pod_id, store, now, sched, frame, wire>>

\* The route answers without calling the manager.
answer(c, body, response) ==
    /\ frame' = [frame EXCEPT ![c] =
           [IdleFrame EXCEPT !.entry = auth_file, !.body = body, !.http = response]]
    /\ pc' = [pc EXCEPT ![c] = "replied"]
    /\ UNCHANGED <<environ, metadata, pod_id, auth_file, store, now, sched, wire>>

\* POST /auth/authenticate, from the request to the call of the manager:
\* request.json() raises on a body that is not JSON (500), missing credentials
\* are answered 400, and auth_manager.authenticate is called otherwise.
post_auth_authenticate(c, body, fault) ==
    /\ pc[c] = "idle"
    /\ Scheduled(c)
    /\ IF ~body.json THEN answer(c, body, internal_error)
       ELSE IF credentials_missing(body.username, body.password)
       THEN answer(c, body, bad_request)
       ELSE authenticate(c, body.username, body.password, fault)

\* POST /auth/authenticate, from the return of the manager to the response.
json_response(c) ==
    /\ pc[c] = "returned"
    /\ frame[c].op = "authenticate"
    /\ Scheduled(c)
    /\ frame' = [frame EXCEPT ![c] =
           [IdleFrame EXCEPT !.op = "authenticate", !.ret = frame[c].ret,
                             !.http = route_response(frame[c].ret)]]
    /\ pc' = [pc EXCEPT ![c] = "replied"]
    /\ UNCHANGED <<environ, metadata, pod_id, auth_file, store, now, sched, wire>>

\* The caller takes the result of its call: the HTTP client the response of
\* the route, the caller of logout its return.
Return(c) ==
    /\ pc[c] = "replied" \/ (pc[c] = "returned" /\ frame[c].op # "authenticate")
    /\ Scheduled(c)
    /\ pc' = [pc EXCEPT ![c] = "idle"]
    /\ frame' = [frame EXCEPT ![c] = IdleFrame]
    /\ UNCHANGED <<environ, metadata, pod_id, auth_file, store, now, sched, wire>>

\* logout: _save_auth_status(authenticated=False), nothing else.
logout(c) ==
    /\ pc[c] = "idle"
    /\ Scheduled(c)
    /\ frame' = [frame EXCEPT ![c] =
           [IdleFrame EXCEPT !.op = "logout",
                             !.data = auth_data(FALSE, None, now, pod_id), !.entry = auth_file]]
    /\ pc' = [pc EXCEPT ![c] = "open"]
    /\ UNCHANGED <<environ, metadata, pod_id, auth_file, store, now, sched, wire>>

\* clear_auth: unlink the file when it exists; an exception is swallowed.
clear_auth(c, outcome) ==
    /\ pc[c] = "idle"
    /\ Scheduled(c)
    /\ outcome \in UnlinkOutcomes(store)
    /\ auth_file' = unlink(auth_file, outcome)
    /\ frame' = [frame EXCEPT ![c] =
           [IdleFrame EXCEPT !.op = "clear_auth", !.entry = auth_file]]
    /\ pc' = [pc EXCEPT ![c] = "returned"]
    /\ UNCHANGED <<environ, metadata, pod_id, store, now, sched, wire>>

\* auth_manager = AuthManager(): the process starts (again, after it stopped
\* with no call in progress) and __init__ runs on the environment and the
\* directory it finds.
__init__ ==
    /\ \A c \in Callers : pc[c] = "idle"
    /\ pod_id' = init_pod_id(environ)
    /\ auth_file' = mkdir_exist_ok(auth_file)
    /\ UNCHANGED <<environ, metadata, store, now, sched, pc, frame, wire>>

-----------------------------------------------------------------------------
\* The environment of the manager.

set_RUNPOD_POD_ID(v) ==
    /\ environ' = [environ EXCEPT !.RUNPOD_POD_ID = v]
    /\ UNCHANGED <<metadata, pod_id, auth_file, store, now, sched, pc, frame, wire>>

set_WEBHOOK_SECRET_KEY(v) ==
    /\ environ' = [environ EXCEPT !.WEBHOOK_SECRET_KEY = v]
    /\ UNCHANGED <<metadata, pod_id, auth_file, store, now, sched, pc, frame, wire>>

write_metadata(m) ==
    /\ metadata' = m
    /\ UNCHANGED <<environ, pod_id, auth_file, store, now, sched, pc, frame, wire>>

tick ==
    /\ now < MaxClock
    /\ now' = now + 1
    /\ UNCHANGED <<environ, metadata, pod_id, auth_file, store, sched, pc, frame, wire>>

-----------------------------------------------------------------------------
\* The specifications.

CallerNext ==
    \E c \in Callers :
        \/ \E body \in Bodies, fault \in BOOLEAN : post_auth_authenticate(c, body, fault)
        \/ \E r \in Responses : requests_post(c, r)
        \/ \E outcome \in {"ok", "no_dir"} : open_auth_file(c, outcome)
        \/ \E outcome \in {"ok", "no_space"} : dump_auth_file(c, outcome)
        \/ json_response(c)
        \/ Return(c)
        \/ logout(c)
        \/ \E outcome \in {"ok", "denied"} : clear_auth(c, outcome)

EnvNext ==
    \/ \E v \in EnvPodIds : set_RUNPOD_POD_ID(v)
    \/ \E v \in EnvSecrets : set_WEBHOOK_SECRET_KEY(v)
    \/ \E m \in Metadatas : write_metadata(m)
    \/ tick

Next == CallerNext \/ EnvNext

Spec == Init /\ [][Next]_vars

FaultInit ==
    /\ environ \in [RUNPOD_POD_ID : {Unset, "pod-1"}, WEBHOOK_SECRET_KEY : {Unset}]
    /\ metadata = [kind |-> "missing", podId |-> None]
    /\ pod_id = init_pod_id(environ)
    /\ auth_file = NoFile
    /\ store = "faulty"
    /\ now = 0
    /\ sched = "loop"
    /\ pc = [c \in Callers |-> "idle"]
    /\ frame = [c \in Callers |-> IdleFrame]
    /\ wire = [c \in Callers |-> <<>>]

FaultSpec == FaultInit /\ [][Next]_vars

ThreadInit ==
    /\ environ \in [RUNPOD_POD_ID : {Unset, "pod-1"}, WEBHOOK_SECRET_KEY : {Unset}]
    /\ metadata = [kind |-> "missing", podId |-> None]
    /\ pod_id = init_pod_id(environ)
    /\ auth_file = NoFile
    /\ store = "reliable"
    /\ now = 0
    /\ sched = "threads"
    /\ pc = [c \in Callers |-> "idle"]
    /\ frame = [c \in Callers |-> IdleFrame]
    /\ wire = [c \in Callers |-> <<>>]

ThreadNext == CallerNext \/ tick

ThreadSpec == ThreadInit /\ [][ThreadNext]_vars

\* The process is stopped and started again between calls, under an
\* environment whose RUNPOD_POD_ID changes.
RestartNext ==
    \/ CallerNext
    \/ \E v \in EnvPodIds : set_RUNPOD_POD_ID(v)
    \/ tick
    \/ __init__

RestartSpec == Init /\ [][RestartNext]_vars

\* Progress: a request that was given a timeout ends in Timeout if nothing
\* else ends it, and the steps of _save_auth_status, of the route and of the
\* caller, which wait for nothing, are taken.
LiveNext == CallerNext \/ tick

Progress(c) ==
    /\ WF_vars(requests_post(c, [kind |-> "Timeout", code |-> 0]))
    /\ WF_vars(open_auth_file(c, "ok") \/ dump_auth_file(c, "ok"))
    /\ WF_vars(json_response(c) \/ Return(c))

LiveSpec == Init /\ [][LiveNext]_vars /\ \A c \in Callers : Progress(c)

-----------------------------------------------------------------------------
\* The outcomes of authenticate, by the tuple the code returns for each.

Success == Returned(TRUE, "Authentication successful", 0)
InvalidCredentials == Returned(FALSE, "Invalid username or password", 0)
AccessDenied == Returned(FALSE, "Access denied for this pod", 0)
ServerError(code) == Returned(FALSE, "Server error: ", code)
Timeout == Returned(FALSE, "Authentication request timed out", 0)
ConnectionFailure == Returned(FALSE, "Could not connect to authentication server", 0)
InternalFault == Returned(FALSE, "Authentication error: ", 0)

\* Caller c's call of op has returned and its result has not been taken yet:
\* the state right after the call.
Done(c, op) == pc[c] = "returned" /\ frame[c].op = op

StatusIs(c, code) == frame[c].response = [kind |-> "status", code |-> code]

\* frame[c].entry is the status file as the call found it.
AuthenticatedBefore(c) == is_authenticated(frame[c].entry)

-----------------------------------------------------------------------------
\* C1: an authenticate() whose response has status 200 returns Success and
\* is_authenticated() is true right after it; a logout() makes
\* is_authenticated() false and puts no request on the wire.
C1_SuccessThenLogout ==
    \A c \in Callers :
        /\ (Done(c, "authenticate") /\ StatusIs(c, 200))
               => (frame[c].ret = Success /\ is_authenticated(auth_file))
        /\ frame[c].op = "logout"
               => (frame[c].posts = 0 /\ \A d \in Callers : wire[d] = <<>>)
        /\ Done(c, "logout") => ~is_authenticated(auth_file)

\* A logout has returned that found the state authenticated, as a successful
\* authenticate() left it.
C1_Witness ==
    \E c \in Callers :
        Done(c, "logout") /\ AuthenticatedBefore(c) /\ ~is_authenticated(auth_file)

\* C2: for a response with a status other than 200 the outcome is fixed by the
\* status alone (401 InvalidCredentials, 403 AccessDenied, any other status
\* ServerError with that status), and is_authenticated() is false afterwards
\* whatever the state was before.
C2_FailureByStatus ==
    \A c \in Callers :
        (Done(c, "authenticate") /\ frame[c].response.kind = "status"
            /\ frame[c].response.code # 200)
        => /\ frame[c].ret =
                  (IF frame[c].response.code = 401 THEN InvalidCredentials
                   ELSE IF frame[c].response.code = 403 THEN AccessDenied
                   ELSE ServerError(frame[c].response.code))
           /\ ~is_authenticated(auth_file)

\* A call answered 403 has returned AccessDenied on a state that was
\* authenticated.
C2_Witness ==
    \E c \in Callers :
        /\ Done(c, "authenticate") /\ StatusIs(c, 403)
        /\ AuthenticatedBefore(c) /\ frame[c].ret = AccessDenied

C4_TransportFailureWritesNothing ==
    \A c \in Callers :
        (Done(c, "authenticate") /\ frame[c].ret \in {Timeout, ConnectionFailure})
            => auth_file = frame[c].entry

\* A call has timed out on a state that was authenticated.
C4_Witness ==
    \E c \in Callers :
        /\ Done(c, "authenticate") /\ frame[c].ret = Timeout
        /\ frame[c].response.kind = "Timeout" /\ AuthenticatedBefore(c)

\* C5: whatever pod resolution, signing, the transport and the status store
\* do, authenticate() hands its caller a (success, message) tuple and raises
\* nothing.
C5_NothingEscapes ==
    \A c \in Callers :
        Done(c, "authenticate")
            => /\ ~frame[c].ret.raised
               /\ frame[c].ret.success \in BOOLEAN
               /\ frame[c].ret.message # ""

\* A call answered 200 has returned its tuple although the write of the status
\* file raised after the open had truncated it.
C5_Witness ==
    \E c \in Callers :
        /\ Done(c, "authenticate") /\ StatusIs(c, 200)
        /\ frame[c].ret = Success /\ auth_file = <<>>

\* C6 as stated: once two authenticate() calls that both write the state
\* (different outcomes) have returned, the status file is the complete
\* document one of them wrote, which get_auth_status() parses.
C6_FinalStateIsOneOutcome ==
    (/\ \A c \in Callers : Done(c, "authenticate") /\ frame[c].response.kind = "status"
     /\ \E c, d \in Callers : frame[c].ret # frame[d].ret)
        => /\ auth_file \in {json_dump(frame[c].data) : c \in Callers}
           /\ json_load(auth_file) # ParseError

\* A caller is inside the state update from the open of the status file to
\* its close.
Writers == {c \in Callers : pc[c] = "dump"}

\* C7 as stated: at most one caller is inside the state update at a time, and
\* the write of the call that completes last, every other call having
\* returned, is what the state holds.
C7_OneWriterLastWins ==
    [][/\ Cardinality(Writers') <= 1
       /\ \A c \in Callers :
              (/\ pc[c] = "dump" /\ pc'[c] = "returned"
               /\ \A d \in Callers \ {c} : pc[d] \in {"idle", "returned"})
                  => get_auth_status(auth_file') = frame[c].data]_vars

\* The outcome the code gives each response, signed or not.
OutcomeOf(response) ==
    CASE response.kind = "Timeout" -> Timeout
      [] response.kind = "ConnectionError" -> ConnectionFailure
      [] response.kind = "Exception" -> InternalFault
      [] response.kind = "status" /\ response.code = 200 -> Success
      [] response.kind = "status" /\ response.code = 401 -> InvalidCredentials
      [] response.kind = "status" /\ response.code = 403 -> AccessDenied
      [] OTHER -> ServerError(response.code)

\* c enters authenticate in this step and blocks in requests.post.
Posts(c) == pc[c] = "idle" /\ pc'[c] = "posted"

\* C8: with an empty or unset secret the signing step returns None and the
\* POST is sent without x-signature; the POST carries x-signature exactly when
\* the signing step returned a signature; an unsigned call gets the outcome of
\* its response like any other.
C8_SigningNeverBlocks ==
    [][\A c \in Callers :
          /\ Posts(c) =>
                /\ Len(wire'[c]) = 1
                /\ getenv(environ, "WEBHOOK_SECRET_KEY", "") = ""
                       => frame'[c].signature = NoSignature
                /\ ("x-signature" \in DOMAIN wire'[c][1].headers)
                       <=> (frame'[c].signature # NoSignature)
                /\ frame'[c].signed <=> (frame'[c].signature # NoSignature)
          /\ (Done(c, "authenticate")' /\ ~frame'[c].signed)
                => frame'[c].ret = OutcomeOf(frame'[c].response)]_vars

\* An unsigned call has returned Success while no secret is set.
C8_Witness ==
    \E c \in Callers :
        /\ Done(c, "authenticate") /\ ~frame[c].signed /\ frame[c].ret = Success
        /\ environ.WEBHOOK_SECRET_KEY = ""

\* The identity the priority rule names: the environment's when it is set,
\* non-empty and not "unknown"; else the metadata file's podId when the file
\* exists, parses and holds a non-empty podId; else the one fixed by __init__.
ByPriority ==
    IF environ.RUNPOD_POD_ID \notin {Unset, "", "unknown"}
    THEN environ.RUNPOD_POD_ID
    ELSE IF metadata.kind \notin {"missing", "corrupt"}
            /\ metadata.podId \notin {None, ""}
    THEN metadata.podId
    ELSE pod_id

\* C9: every call resolves its pod identity by that priority.
C9_ResolutionPriority ==
    [][\A c \in Callers : Posts(c) => frame'[c].actual_pod_id = ByPriority]_vars

\* A call has resolved the metadata file's pod-7 under an environment identity
\* "unknown".
C9_Witness ==
    \E c \in Callers :
        /\ pc[c] = "posted" /\ frame[c].actual_pod_id = "pod-7"
        /\ environ.RUNPOD_POD_ID = "unknown"

\* The value of key in a dict given as its items.
ItemOf(items, key) == (CHOOSE i \in 1..Len(items) : items[i][1] = key)

\* C10: the identity in the request body and the one in the signed message are
\* the identity the call resolved, and that is the identity of the environment
\* and metadata file as they are at the call, whatever earlier calls resolved.
C10_ResolvedPerCall ==
    [][\A c \in Callers :
          Posts(c) =>
            LET body == wire'[c][1].json
                sig == frame'[c].signature
            IN  /\ body[ItemOf(body, "runPodId")][2] = frame'[c].actual_pod_id
                /\ sig # NoSignature =>
                      LET signed_items == sig.hex[2].items
                      IN  signed_items[ItemOf(signed_items, "runPodId")][2]
                              = frame'[c].actual_pod_id
                /\ frame'[c].actual_pod_id = ByPriority]_vars

\* A signed call carries pod-1 although __init__ stored "unknown": the
\* environment changed after construction and the call saw the change.
C10_Witness ==
    \E c \in Callers :
        /\ pc[c] = "posted" /\ frame[c].signature # NoSignature
        /\ pod_id = "unknown" /\ frame[c].actual_pod_id = "pod-1"
        /\ wire[c][1].json[2] = <<"runPodId", "pod-1">>

\* The keys of a dict given as its items.
Keys(items) == {items[i][1] : i \in 1..Len(items)}

\* C11 as stated: the message a call signs is not its request body; its keys are
\* exactly action, pod_id, timestamp and username, action is "authenticate",
\* and password is not among them.
C11_SignsSigningPayload ==
    \A c \in Callers :
        (pc[c] = "posted" /\ frame[c].signature # NoSignature)
        => LET message == frame[c].signature.hex[2].items
           IN  /\ message # wire[c][1].json
               /\ Keys(message) = {"action", "pod_id", "timestamp", "username"}
               /\ message[ItemOf(message, "action")][2] = "authenticate"
               /\ "password" \notin Keys(message)

\* The dicts that hold the items of a dict in another insertion order.
Reorderings(items) ==
    {[i \in 1..Len(items) |-> items[p[i]]] : p \in Permutations(1..Len(items))}

\* C12 as stated: the signature of a call is the signature of every dict that
\* holds the same fields with the same values, whatever their insertion order.
C12_InsertionOrderIrrelevant ==
    \A c \in Callers :
        (pc[c] = "posted" /\ frame[c].signature # NoSignature)
        => \A reordered \in Reorderings(wire[c][1].json) :
               _get_hmac_signature(reordered, environ, FALSE) = frame[c].signature

\* C13 as stated: a response with any 2xx status gives Success and a state
\* that is authenticated; ServerError is given to no 2xx status.
C13_Every2xxIsSuccess ==
    \A c \in Callers :
        (Done(c, "authenticate") /\ frame[c].response.kind = "status")
        => /\ frame[c].response.code \in 200..299
                  => (frame[c].ret = Success /\ is_authenticated(auth_file))
           /\ frame[c].ret = ServerError(frame[c].response.code)
                  => frame[c].response.code \notin 200..299

\* The route has answered caller c's request: after the manager returned
\* (op is "authenticate", ret its result), or without calling it (op is "").
Replied(c, op) == pc[c] = "replied" /\ frame[c].op = op

\* C14 as stated: a successful authenticate() returns a third value, the user
\* data, and the route's response carries it as user_data; the response to an
\* unsuccessful call carries none.
C14_SuccessCarriesUserData ==
    \A c \in Callers :
        /\ (Done(c, "authenticate") /\ frame[c].ret.success) => frame[c].ret.values = 3
        /\ Replied(c, "authenticate")
               => (frame[c].http.user_data <=> frame[c].ret.success)

\* The outcomes the claims call classified.
Classified ==
    {Success, InvalidCredentials, AccessDenied, Timeout, ConnectionFailure}
        \cup {ServerError(s) : s \in Statuses}

\* C15 as stated: the route answers a call of the manager that returned a
\* classified outcome with HTTP 200 and that outcome's success flag and message,
\* and answers 500 to no such call.
C15_ClassifiedOutcomesAnswered200 ==
    \A c \in Callers :
        (Replied(c, "authenticate") /\ frame[c].ret \in Classified)
        => /\ frame[c].http.status = 200
           /\ frame[c].http.success = frame[c].ret.success
           /\ frame[c].http.message = frame[c].ret.message
           /\ frame[c].http.code = frame[c].ret.code

\* A JSON body lacks a username or a password: absent or empty.
Lacks(body) == body.json /\ (body.username \in {None, ""} \/ body.password \in {None, ""})

\* C16: a request whose body lacks a username or a password never enters
\* authenticate; the route answers it 400 with nothing posted to the verifier
\* and the status file as the request found it.
C16_MissingCredentialsRejected ==
    \A c \in Callers :
        /\ pc[c] = "posted" => ~Lacks(frame[c].body)
        /\ (Replied(c, "") /\ Lacks(frame[c].body))
               => /\ frame[c].http = bad_request
                  /\ frame[c].posts = 0 /\ wire[c] = <<>>
                  /\ auth_file = frame[c].entry
        /\ frame[c].http.status = 400 => (Replied(c, "") /\ Lacks(frame[c].body))

\* A request with a username and an empty password has been answered 400 on
\* a state that was, and is, authenticated.
C16_Witness ==
    \E c \in Callers :
        /\ Replied(c, "") /\ frame[c].http.status = 400
        /\ frame[c].body.username = "al" /\ frame[c].body.password = ""
        /\ AuthenticatedBefore(c) /\ is_authenticated(auth_file)

\* C17 as stated: right after every construction of the manager, the first
\* one or a later one, is_authenticated() is false.
C17_NotAuthenticatedAfterConstruction ==
    [][__init__ => ~is_authenticated(auth_file')]_vars

\* C17 amended: construction leaves the status file as it finds it, so right
\* after it is_authenticated() and get_auth_status() answer what they answered
\* before the process stopped: not authenticated when no status file exists,
\* authenticated when an earlier instance left the file so.
C17_ConstructionKeepsStatus ==
    [][__init__ =>
          /\ auth_file' = auth_file
          /\ get_auth_status(auth_file') = get_auth_status(auth_file)
          /\ auth_file = NoFile => ~is_authenticated(auth_file')]_vars

\* No call is in progress, the status file says authenticated, and it was
\* written by an earlier instance: the pod_id in it is not the one this
\* instance's __init__ stored.
C17_Witness ==
    /\ \A c \in Callers : pc[c] = "idle"
    /\ is_authenticated(auth_file)
    /\ get_auth_status(auth_file).pod_id # pod_id

\* C18: when clear_auth has returned the status file does not exist,
\* is_authenticated() is false and get_auth_status() has no username; a file
\* that does not exist comes to exist only by the write of an authenticate()
\* or a logout().
C18_ClearRemovesStatus ==
    [][/\ \A c \in Callers :
              Done(c, "clear_auth")'
                  => /\ auth_file' = NoFile
                     /\ ~is_authenticated(auth_file')
                     /\ get_auth_status(auth_file').username = None
       /\ (auth_file = NoFile /\ auth_file' # NoFile)
              => \E c \in Callers :
                     /\ pc[c] = "open" /\ pc'[c] = "dump"
                     /\ frame[c].op \in {"authenticate", "logout"}]_vars

\* clear_auth has returned on a state that was authenticated.
C18_Witness ==
    \E c \in Callers :
        /\ Done(c, "clear_auth") /\ AuthenticatedBefore(c)
        /\ auth_file = NoFile /\ ~is_authenticated(auth_file)

\* c takes a step of its call in requests.post.
Answered(c) == pc[c] = "posted" /\ <<pc[c], frame[c], wire[c]>>' # <<pc[c], frame[c], wire[c]>>

\* C19: a call posts one request, when it enters requests.post, and no other;
\* the step that ends the request, whatever ended it, leaves requests.post for
\* the save or the return with the outcome of that one response.
C19_NoRetries ==
    [][\A c \in Callers :
          /\ frame'[c].posts <= 1 /\ Len(wire'[c]) <= 1
          /\ (wire'[c] # wire[c] /\ wire'[c] # <<>>) => (Posts(c) /\ frame'[c].posts = 1)
          /\ Answered(c)
                => /\ pc'[c] \in {"open", "returned"}
                   /\ wire'[c] = <<>>
                   /\ frame'[c].posts = 1
                   /\ frame'[c].ret = OutcomeOf(frame'[c].response)]_vars

\* A call whose one request was refused has returned ConnectionFailure.
C19_Witness ==
    \E c \in Callers :
        /\ Done(c, "authenticate") /\ frame[c].response.kind = "ConnectionError"
        /\ frame[c].ret = ConnectionFailure /\ frame[c].posts = 1 /\ wire[c] = <<>>

\* C20: every call that is in requests.post returns, and a call whose request
\* ended by the timeout returns Timeout, raising nothing.
C20_EveryCallReturns ==
    /\ \A c \in Callers : (pc[c] = "posted") ~> Done(c, "authenticate")
    /\ [](\A c \in Callers :
              (Done(c, "authenticate") /\ frame[c].response.kind = "Timeout")
                  => frame[c].ret = Timeout)

\* A call whose request timed out has returned Timeout.
C20_Witness ==
    \E c \in Callers :
        /\ Done(c, "authenticate") /\ frame[c].response.kind = "Timeout"
        /\ frame[c].ret = Timeout /\ ~frame[c].ret.raised

\* C21 as stated: with a secret configured, what the signing step returns
\* when serialization or hashing raises is not what it returns when no secret
\* is configured.
C21_SigningFaultDistinct ==
    \A c \in Callers :
        (pc[c] = "posted" /\ getenv(environ, "WEBHOOK_SECRET_KEY", "") # "")
        => _get_hmac_signature(wire[c][1].json, environ, TRUE)
               # _get_hmac_signature(wire[c][1].json,
                                     [environ EXCEPT !.WEBHOOK_SECRET_KEY = Unset], FALSE)

-----------------------------------------------------------------------------
\* The verifier of src/example_server.py and the signing of src/test_hmac.py.

\* dict.get(key, default) on a dict given as its items.
dict_get(items, key, default) ==
    IF \E i \in 1..Len(items) : items[i][1] = key
    THEN items[CHOOSE i \in 1..Len(items) : items[i][1] = key][2]
    ELSE default

\* The keys of the dicts that are serialized, in the order of their code
\* points ("I" sorts before "_").
KeyOrder ==
    <<"action", "password", "podId", "pod_id", "runPodId", "timestamp", "username">>

\* json.dumps(obj, sort_keys=True): the items by key, with json's default
\* separators.
json_dumps_sort_keys(items) ==
    LET has(k) == \E i \in 1..Len(items) : items[i][1] = k
        present == SelectSeq(KeyOrder, has)
    IN  [items |-> [i \in 1..Len(present) |->
                       <<present[i], dict_get(items, present[i], None)>>],
         separators |-> <<", ", ": ">>]

\* message_data: the dict that generate_hmac_signature signs and that
\* validate_hmac_signature reconstructs from the body, at the second t.
message_data(payload, t) ==
    << <<"pod_id", dict_get(payload, "podId", "")>>, <<"timestamp", t>>,
       <<"username", dict_get(payload, "username", "")>>,
       <<"action", "authenticate">> >>

\* test_hmac.generate_hmac_signature.
generate_hmac_signature(payload_data, secret_key, t) ==
    hexdigest(secret_key, json_dumps_sort_keys(message_data(payload_data, t)))

\* example_server.validate_hmac_signature: False without a signature header,
\* else whether the header is the digest of the reconstructed message.
validate_hmac_signature(payload, headers, SECRET_KEY, t) ==
    IF "x-signature" \notin DOMAIN headers THEN FALSE
    ELSE headers["x-signature"]
             = hexdigest(SECRET_KEY, json_dumps_sort_keys(message_data(payload, t)))

\* example_server.authenticate_user.
authenticate_user(username, password, pod) ==
    password = "demo123" /\ pod \in {"pod-1", "pod-7"}

\* example_server.authenticate_pod: the status and the error of its answer.
authenticate_pod(payload, headers, SECRET_KEY, t) ==
    LET pod == dict_get(payload, "podId", None)
        username == dict_get(payload, "username", None)
        password == dict_get(payload, "password", None)
    IN  IF pod \in {None, ""} \/ username \in {None, ""} \/ password \in {None, ""}
        THEN [status |-> 400, error |-> "Missing required fields"]
        ELSE IF SECRET_KEY \notin {"", "your-secret-key-here"}
                /\ ~validate_hmac_signature(payload, headers, SECRET_KEY, t)
        THEN [status |-> 403, error |-> "Invalid signature"]
        ELSE IF authenticate_user(username, password, pod)
        THEN [status |-> 200, error |-> ""]
        ELSE [status |-> 401, error |-> "Invalid credentials"]

\* C22 as stated: the message a signed call signs is the message that
\* generate_hmac_signature builds and validate_hmac_signature reconstructs from
\* the body in the same second, and the example server, holding the secret of
\* the client, answers the request with neither "Missing required fields" nor
\* "Invalid signature".
C22_ClientAndVerifierAgree ==
    \A c \in Callers :
        (pc[c] = "posted" /\ frame[c].signature # NoSignature)
        => LET request == wire[c][1]
               secret == environ.WEBHOOK_SECRET_KEY
           IN  /\ frame[c].signature.hex[2]
                      = json_dumps_sort_keys(message_data(request.json, now))
               /\ frame[c].signature = generate_hmac_signature(request.json, secret, now)
               /\ validate_hmac_signature(request.json, request.headers, secret, now)
               /\ authenticate_pod(request.json, request.headers, secret, now).error
                      \notin {"Missing required fields", "Invalid signature"}

\* c completes the write of _save_auth_status in this step.
Saves(c) == pc[c] = "dump" /\ pc'[c] = "returned"

\* C23: the stored status says authenticated only with a username, which is
\* the username of the authenticate() call that returned Success last: a
\* write of an authenticate() that returns Success stores authenticated true
\* with that call's username, every other write stores authenticated false
\* with a null username, and a step that changes the file without completing
\* a write leaves no status that says authenticated.
C23_UsernameOfLastSuccess ==
    [][/\ (auth_file' # auth_file /\ ~\E c \in Callers : Saves(c))
              => ~is_authenticated(auth_file')
       /\ \A c \in Callers :
              Saves(c) =>
                  /\ get_auth_status(auth_file') = frame[c].data
                  /\ IF frame[c].op = "authenticate" /\ frame[c].ret = Success
                     THEN /\ frame[c].data.authenticated
                          /\ frame[c].data.username = frame[c].username
                          /\ frame[c].username # None
                     ELSE /\ ~frame[c].data.authenticated
                          /\ frame[c].data.username = None]_vars

\* A successful authenticate() of bob has returned on a status that named al.
C23_Witness ==
    \E c \in Callers :
        /\ Done(c, "authenticate") /\ frame[c].ret = Success
        /\ is_authenticated(frame[c].entry)
        /\ get_auth_status(frame[c].entry).username = "al"
        /\ is_authenticated(auth_file) /\ get_auth_status(auth_file).username = "bob"

\* What a reader learns from a status: whether it says authenticated, and
\* the username.
Seen(status) == <<status.authenticated, status.username>>

\* C24 as stated: while one caller is between the open and the close of its
\* write, and no other caller writes, a read returns the status the call found
\* or the status it writes; if both say authenticated the read says
\* authenticated.
C24_ReadSeesBeforeOrAfter ==
    \A c \in Callers :
        (pc[c] = "dump" /\ \A d \in Callers \ {c} : pc[d] \in {"idle", "posted"})
        => /\ Seen(get_auth_status(auth_file))
                  \in {Seen(get_auth_status(frame[c].entry)), Seen(frame[c].data)}
           /\ (is_authenticated(frame[c].entry) /\ frame[c].data.authenticated)
                  => is_authenticated(auth_file)

\* c enters _save_auth_status in this step, with the dict it will write.
BuildsStatus(c) == pc[c] # "open" /\ pc'[c] = "open"

\* C25: the dict that authenticate() or logout() builds for the status file
\* and the status a completed write stores hold the pod_id that __init__
\* fixed, which only a construction changes, whatever identity the call
\* resolved for its request.
C25_StoredPodIdIsConstructed ==
    [][/\ pod_id' # pod_id => (__init__ /\ pod_id' = init_pod_id(environ))
       /\ \A c \in Callers :
              /\ BuildsStatus(c) => frame'[c].data.pod_id = pod_id
              /\ Saves(c) =>
                    /\ frame[c].data.pod_id = pod_id
                    /\ get_auth_status(auth_file').pod_id = pod_id]_vars

\* An authenticate() that sent the resolved identity pod-1 to the verifier is
\* saving a status with the pod_id "unknown" that __init__ fixed.
C25_Witness ==
    \E c \in Callers :
        /\ pc[c] = "open" /\ frame[c].op = "authenticate"
        /\ frame[c].actual_pod_id = "pod-1"
        /\ pod_id = "unknown" /\ frame[c].data.pod_id = "unknown"

====
